---- MODULE Spec2Model ----
(***************************************************************************)
(* Model of cc/internal/ec_util.cc: the elliptic-curve point codec         *)
(* (EcPointEncode, EcPointDecode, GetEcPoint, EncodingSizeInBytes) and the *)
(* X25519 key bridge (EcKeyFromX25519Key, X25519KeyFromEcKey).             *)
(*                                                                         *)
(* Every function of the file is stateless.  The state of the model is the *)
(* last call: its arguments (arg), its result (res), and the accounting of *)
(* the provider handles (EC_GROUP, EC_POINT, BIGNUM) the call acquired.    *)
(*                                                                         *)
(* The curve arithmetic is the provider's (BoringSSL or OpenSSL).  It is   *)
(* modelled by short Weierstrass curves y^2 = x^3 - 3x + b over small      *)
(* prime fields, one per curve type, while the degrees (256, 384, 521) and *)
(* therefore all byte lengths are the real ones.  A BIGNUM is a big-endian *)
(* byte sequence without leading zero bytes.  The two providers the file   *)
(* is built against differ where noted; `build` ranges over both.          *)
(***************************************************************************)
EXTENDS Integers, Sequences, FiniteSets, TLC

VARIABLES build, op, arg, res, held, callerOwns

vars == <<build, op, arg, res, held, callerOwns>>

(***************************************************************************)
(* Bounds of the input enumeration.                                        *)
(***************************************************************************)
\* coordinates are drawn from 0 .. p-1+MaxExtra (values >= p are not field elements)
MaxExtra == 1
\* number of leading zero bytes tried in front of a GetEcPoint coordinate
MaxPad == 1
\* number of distinct byte patterns tried for X25519 key material
MaxSeed == 2

(***************************************************************************)
(* Enumerations (tink/subtle/common_enums.h).                              *)
(***************************************************************************)
EllipticCurveType == {"NIST_P256", "NIST_P384", "NIST_P521", "CURVE25519"}

EcPointFormat == {"UNCOMPRESSED", "COMPRESSED", "DO_NOT_USE_CRUNCHY_UNCOMPRESSED", "UNKNOWN_FORMAT"}

SupportedCurves == {"NIST_P256", "NIST_P384", "NIST_P521"}

SupportedFormats == {"UNCOMPRESSED", "COMPRESSED", "DO_NOT_USE_CRUNCHY_UNCOMPRESSED"}

Builds == {"boringssl", "openssl"}

(***************************************************************************)
(* Byte-string helpers.                                                    *)
(***************************************************************************)
Zeros(k) == [i \in 1..k |-> 0]

\* absl::string_view::substr(pos, count)
Substr(s, pos, count) == [i \in 1..count |-> s[pos + i]]

\* the byte string from its first non-zero byte on
StripLeadingZeros(s) ==
  LET nz == {i \in 1..Len(s) : s[i] # 0}
  IN IF nz = {} THEN <<>>
     ELSE SubSeq(s, CHOOSE i \in nz : \A j \in nz : i <= j, Len(s))

\* StringToBignum (bn_util): big-endian bytes to BIGNUM (BN_bin2bn).
StringToBignum(s) == StripLeadingZeros(s)

\* BignumToBinaryPadded (bn_util): BIGNUM into a span of exactly n bytes,
\* left-padded with zeros; fails when the value does not fit.
BignumToBinaryPadded(n, bn) ==
  IF Len(bn) > n
    THEN [ok |-> FALSE, bytes |-> <<>>]
    ELSE [ok |-> TRUE, bytes |-> Zeros(n - Len(bn)) \o bn]

\* the BIGNUM of a small non-negative integer (one byte, the model's field size)
BnOfInt(v) == IF v = 0 THEN <<>> ELSE <<v>>

\* b^e modulo p, by squaring
RECURSIVE PowMod(_, _, _)
PowMod(b, e, p) ==
  IF e = 0 THEN 1 % p
  ELSE LET h == PowMod(b, e \div 2, p)
       IN (h * h * (IF e % 2 = 1 THEN b % p ELSE 1)) % p

\* big-endian value of the bytes lo..hi of bn, modulo p
RECURSIVE BnModRange(_, _, _, _)
BnModRange(bn, lo, hi, p) ==
  IF lo > hi THEN 0
  ELSE IF lo = hi THEN bn[lo] % p
  ELSE LET mid == (lo + hi) \div 2
       IN (BnModRange(bn, lo, mid, p) * PowMod(256, hi - mid, p)
           + BnModRange(bn, mid + 1, hi, p)) % p

\* value of a BIGNUM modulo p
BnMod(bn, p) == BnModRange(bn, 1, Len(bn), p)

\* bn < p, for p < 256
BnLess(bn, p) == Len(bn) = 0 \/ (Len(bn) = 1 /\ bn[1] < p)

(***************************************************************************)
(* The provider: groups.                                                   *)
(***************************************************************************)
\* prime of the field the model gives the named curve
FieldPrime(curve) ==
  CASE curve = "NIST_P256" -> 7
    [] curve = "NIST_P384" -> 11
    [] curve = "NIST_P521" -> 13

\* coefficient b of y^2 = x^3 - 3x + b
CoeffB(curve) ==
  CASE curve = "NIST_P256" -> 4
    [] curve = "NIST_P384" -> 3
    [] curve = "NIST_P521" -> 3

\* EC_GROUP_get_degree
EC_GROUP_get_degree(curve) ==
  CASE curve = "NIST_P256" -> 256
    [] curve = "NIST_P384" -> 384
    [] curve = "NIST_P521" -> 521

\* the curve equation over the field of `curve`
SatisfiesEquation(curve, x, y) ==
  LET p == FieldPrime(curve)
  IN (y * y) % p = (x * x * x + (p - 3) * x + CoeffB(curve)) % p

(***************************************************************************)
(* The provider: points.  An EC_POINT belongs to a group and is either the *)
(* point at infinity (what EC_POINT_new returns) or an affine pair.        *)
(***************************************************************************)
NoPoint == [group |-> "none", inf |-> FALSE, x |-> 0, y |-> 0]

Infinity(curve) == [group |-> curve, inf |-> TRUE, x |-> 0, y |-> 0]

Affine(curve, x, y) == [group |-> curve, inf |-> FALSE, x |-> x, y |-> y]

\* EC_POINT_is_on_curve: 1 iff the point is of this group and is the point
\* at infinity or satisfies the equation.
EC_POINT_is_on_curve(curve, point) ==
  /\ point.group = curve
  /\ \/ point.inf
     \/ SatisfiesEquation(curve, point.x, point.y)

\* EC_POINT_get_affine_coordinates: fails for the point at infinity.
EC_POINT_get_affine_coordinates(curve, point) ==
  IF point.group # curve \/ point.inf
    THEN [ok |-> FALSE, x |-> <<>>, y |-> <<>>]
    ELSE [ok |-> TRUE, x |-> BnOfInt(point.x), y |-> BnOfInt(point.y)]

\* EC_POINT_set_affine_coordinates_GFp: BoringSSL rejects a coordinate that
\* is not a field element, OpenSSL reduces it modulo the field prime; both
\* then reject a pair that does not satisfy the equation.
EC_POINT_set_affine_coordinates_GFp(bld, curve, bn_x, bn_y) ==
  LET p == FieldPrime(curve)
      x == BnMod(bn_x, p)
      y == BnMod(bn_y, p)
  IN IF bld = "boringssl" /\ ~(BnLess(bn_x, p) /\ BnLess(bn_y, p))
       THEN [ok |-> FALSE, point |-> NoPoint]
     ELSE IF ~SatisfiesEquation(curve, x, y)
       THEN [ok |-> FALSE, point |-> NoPoint]
     ELSE [ok |-> TRUE, point |-> Affine(curve, x, y)]

\* size in bytes of a field element
FieldLen(curve) == (EC_GROUP_get_degree(curve) + 7) \div 8

\* EC_POINT_point2oct: the X9.62 octet string of a point.  For the point at
\* infinity BoringSSL fails and OpenSSL writes the single octet 0x00.
EC_POINT_point2oct(bld, curve, point, form) ==
  LET n == FieldLen(curve)
      X == Zeros(n - Len(BnOfInt(point.x))) \o BnOfInt(point.x)
      Y == Zeros(n - Len(BnOfInt(point.y))) \o BnOfInt(point.y)
  IN IF point.group # curve THEN <<>>
     ELSE IF point.inf THEN (IF bld = "openssl" THEN <<0>> ELSE <<>>)
     ELSE IF form = "POINT_CONVERSION_UNCOMPRESSED" THEN <<4>> \o X \o Y
     ELSE <<2 + (point.y % 2)>> \o X

\* EC_POINT_oct2point: octet string to point.  The form is read from the
\* first octet; x must be a field element; an uncompressed pair must satisfy
\* the equation; a compressed x must have a square root of the tagged parity.
EC_POINT_oct2point(bld, curve, buf) ==
  LET p == FieldPrime(curve)
      n == FieldLen(curve)
      fail == [ok |-> FALSE, point |-> NoPoint]
  IN IF Len(buf) = 0 THEN fail
     ELSE IF buf[1] = 4 THEN
       IF Len(buf) # 2 * n + 1 THEN fail
       ELSE LET bx == StripLeadingZeros(Substr(buf, 1, n))
                by == StripLeadingZeros(Substr(buf, 1 + n, n))
            IN IF ~(BnLess(bx, p) /\ BnLess(by, p)) THEN fail
               ELSE IF ~SatisfiesEquation(curve, BnMod(bx, p), BnMod(by, p)) THEN fail
               ELSE [ok |-> TRUE, point |-> Affine(curve, BnMod(bx, p), BnMod(by, p))]
     ELSE IF buf[1] \in {2, 3} THEN
       IF Len(buf) # n + 1 THEN fail
       ELSE LET bx == StripLeadingZeros(Substr(buf, 1, n))
                roots == {y \in 0..(p - 1) :
                            /\ SatisfiesEquation(curve, BnMod(bx, p), y)
                            /\ y % 2 = buf[1] % 2}
            IN IF ~BnLess(bx, p) \/ roots = {} THEN fail
               ELSE [ok |-> TRUE,
                     point |-> Affine(curve, BnMod(bx, p), CHOOSE y \in roots : TRUE)]
     ELSE IF bld = "openssl" /\ buf = <<0>> THEN [ok |-> TRUE, point |-> Infinity(curve)]
     ELSE IF bld = "openssl" /\ buf[1] \in {6, 7} THEN
       \* OpenSSL also reads the hybrid form: x, y and the parity of y in the tag
       IF Len(buf) # 2 * n + 1 THEN fail
       ELSE LET bx == StripLeadingZeros(Substr(buf, 1, n))
                by == StripLeadingZeros(Substr(buf, 1 + n, n))
            IN IF ~(BnLess(bx, p) /\ BnLess(by, p)) THEN fail
               ELSE IF BnMod(by, p) % 2 # buf[1] % 2 THEN fail
               ELSE IF ~SatisfiesEquation(curve, BnMod(bx, p), BnMod(by, p)) THEN fail
               ELSE [ok |-> TRUE, point |-> Affine(curve, BnMod(bx, p), BnMod(by, p))]
     ELSE fail

(***************************************************************************)
(* Results.  status is "OK" or the error of the return statement taken:    *)
(*   UnsupportedCurve   "Unsupported elliptic curve"                       *)
(*   UnsupportedFormat  "Unsupported ... point format", "Invalid format"   *)
(*   LengthMismatch     "Encoded point's size is .. bytes; expected .."    *)
(*   InvalidEncoding    "... point should start with ..."                  *)
(*   InvalidPoint       "Point is not on curve"                            *)
(*   ProviderFailure    "EC_POINT_... failed"                              *)
(*   WrongCurve         "This key is not on curve 25519"                   *)
(*   UnexpectedCoordinate  "pub_y is unexpectedly set"                     *)
(* acq is the set of provider handles the call acquired, rel the set it    *)
(* released before returning, ret the set it handed to its caller.         *)
(***************************************************************************)
NoKey == [private_key |-> <<>>, public_value |-> <<>>]

NoEcKey == [curve |-> "none", pub_x |-> <<>>, pub_y |-> <<>>, priv |-> <<>>]

R(status) ==
  [status |-> status, bytes |-> <<>>, point |-> NoPoint, size |-> 0,
   key |-> NoKey, eckey |-> NoEcKey, overread |-> FALSE,
   enc |-> "none", encBytes |-> <<>>,
   acq |-> {}, rel |-> {}, ret |-> {}]

\* a result with the handles of the enclosing scope added: acquired by it and,
\* the scope being left, released by the SslUniquePtr that owns each
Scoped(r, handles) ==
  [r EXCEPT !.acq = r.acq \cup handles, !.rel = r.rel \cup handles]

(***************************************************************************)
(* EcGroupFromCurveType (lines 326-351).                                   *)
(***************************************************************************)
EcGroupFromCurveType(curve_type) ==
  IF curve_type \in {"NIST_P256", "NIST_P384", "NIST_P521"}
    THEN R("OK")
    ELSE R("UnsupportedCurve")

\* EncodingSizeInBytes rounding the coordinate size down
EncodingSizeInBytes_Truncating(curve, format) ==
  LET group == EcGroupFromCurveType(curve)
      kCurveSizeInBytes == EC_GROUP_get_degree(curve) \div 8
      own == {"EncodingSizeInBytes.group"}
  IN IF group.status # "OK" THEN group
     ELSE IF format = "UNCOMPRESSED"
       THEN Scoped([R("OK") EXCEPT !.size = 2 * kCurveSizeInBytes + 1], own)
     ELSE IF format = "DO_NOT_USE_CRUNCHY_UNCOMPRESSED"
       THEN Scoped([R("OK") EXCEPT !.size = 2 * kCurveSizeInBytes], own)
     ELSE IF format = "COMPRESSED"
       THEN Scoped([R("OK") EXCEPT !.size = kCurveSizeInBytes + 1], own)
     ELSE Scoped(R("UnsupportedFormat"), own)

(***************************************************************************)
(* EncodingSizeInBytes (lines 97-117).                                     *)
(***************************************************************************)
EncodingSizeInBytes(curve, format) ==
  LET group == EcGroupFromCurveType(curve)
      kCurveSizeInBytes == (EC_GROUP_get_degree(curve) + 7) \div 8
      own == {"EncodingSizeInBytes.group"}
  IN IF group.status # "OK" THEN group
     ELSE IF format = "UNCOMPRESSED"
       THEN Scoped([R("OK") EXCEPT !.size = 2 * kCurveSizeInBytes + 1], own)
     ELSE IF format = "DO_NOT_USE_CRUNCHY_UNCOMPRESSED"
       THEN Scoped([R("OK") EXCEPT !.size = 2 * kCurveSizeInBytes], own)
     ELSE IF format = "COMPRESSED"
       THEN Scoped([R("OK") EXCEPT !.size = kCurveSizeInBytes + 1], own)
     ELSE Scoped(R("UnsupportedFormat"), own)

(***************************************************************************)
(* SslEcPointEncode (lines 48-71).  EC_POINT_point2oct is called twice,    *)
(* first for the size, then into the buffer; 0 means failure.              *)
(***************************************************************************)
SslEcPointEncode(bld, group, point, conversion_form) ==
  LET buffer_size == Len(EC_POINT_point2oct(bld, group, point, conversion_form))
      encoded_point == EC_POINT_point2oct(bld, group, point, conversion_form)
  IN IF buffer_size = 0 THEN R("ProviderFailure")
     ELSE IF Len(encoded_point) = 0 THEN R("ProviderFailure")
     ELSE [R("OK") EXCEPT !.bytes = encoded_point]

\* SslGetEcPointFromCoordinates ignoring the result of EC_POINT_set_affine_coordinates_GFp
SslGetEcPointFromCoordinates_Unchecked(bld, group, pubx, puby) ==
  LET bn_x == StringToBignum(pubx)
      bn_y == StringToBignum(puby)
      set == EC_POINT_set_affine_coordinates_GFp(bld, group, bn_x, bn_y)
      bns == {"SslGetEcPointFromCoordinates.bn_x", "SslGetEcPointFromCoordinates.bn_y"}
      pub_key == "SslGetEcPointFromCoordinates.pub_key"
      p == FieldPrime(group)
  IN [Scoped(R("OK"), bns) EXCEPT !.point = Affine(group, BnMod(bn_x, p), BnMod(bn_y, p)),
                                  !.acq = @ \cup {pub_key},
                                  !.ret = {pub_key}]

(***************************************************************************)
(* SslGetEcPointFromCoordinates (lines 75-94).                             *)
(***************************************************************************)
SslGetEcPointFromCoordinates(bld, group, pubx, puby) ==
  LET bn_x == StringToBignum(pubx)
      bn_y == StringToBignum(puby)
      set == EC_POINT_set_affine_coordinates_GFp(bld, group, bn_x, bn_y)
      bns == {"SslGetEcPointFromCoordinates.bn_x", "SslGetEcPointFromCoordinates.bn_y"}
      pub_key == "SslGetEcPointFromCoordinates.pub_key"
  IN IF ~set.ok
       THEN Scoped(R("ProviderFailure"), bns \cup {pub_key})
       ELSE [Scoped(R("OK"), bns) EXCEPT !.point = set.point,
                                         !.acq = @ \cup {pub_key},
                                         !.ret = {pub_key}]

\* SslGetEcPointFromEncoded without the check of the starting byte
SslGetEcPointFromEncoded_NoTagCheck(bld, curve, format, encoded) ==
  LET group == EcGroupFromCurveType(curve)
      encoding_size == EncodingSizeInBytes(curve, format)
      oct == EC_POINT_oct2point(bld, curve, encoded)
      grp == {"SslGetEcPointFromEncoded.group"}
      point == "SslGetEcPointFromEncoded.point"
      \* the handles of this scope and of the finished call of EncodingSizeInBytes
      Leave(r, handles) ==
        [Scoped(r, handles) EXCEPT !.acq = @ \cup encoding_size.acq,
                                   !.rel = @ \cup encoding_size.rel]
  IN IF format # "UNCOMPRESSED" /\ format # "COMPRESSED"
       THEN R("UnsupportedFormat")
     ELSE IF group.status # "OK" THEN group
     ELSE IF encoding_size.status # "OK"
       THEN Leave(R(encoding_size.status), grp)
     ELSE IF Len(encoded) # encoding_size.size
       THEN Leave(R("LengthMismatch"), grp)
     ELSE IF ~oct.ok
       THEN Leave(R("ProviderFailure"), grp \cup {point})
     ELSE IF ~EC_POINT_is_on_curve(curve, oct.point)
       THEN Leave(R("InvalidPoint"), grp \cup {point})
     ELSE [Leave(R("OK"), grp) EXCEPT !.point = oct.point,
                                      !.acq = @ \cup {point},
                                      !.ret = {point}]

\* SslGetEcPointFromEncoded holding the point in a raw pointer, freed on success paths only
SslGetEcPointFromEncoded_LeakOnError(bld, curve, format, encoded) ==
  LET group == EcGroupFromCurveType(curve)
      encoding_size == EncodingSizeInBytes(curve, format)
      oct == EC_POINT_oct2point(bld, curve, encoded)
      grp == {"SslGetEcPointFromEncoded.group"}
      point == "SslGetEcPointFromEncoded.point"
      \* the handles of this scope and of the finished call of EncodingSizeInBytes
      Leave(r, handles) ==
        [Scoped(r, handles) EXCEPT !.acq = @ \cup encoding_size.acq,
                                   !.rel = @ \cup encoding_size.rel]
  IN IF format # "UNCOMPRESSED" /\ format # "COMPRESSED"
       THEN R("UnsupportedFormat")
     ELSE IF group.status # "OK" THEN group
     ELSE IF encoding_size.status # "OK"
       THEN Leave(R(encoding_size.status), grp)
     ELSE IF Len(encoded) # encoding_size.size
       THEN Leave(R("LengthMismatch"), grp)
     ELSE IF format = "UNCOMPRESSED" /\ encoded[1] # 4
       THEN Leave(R("InvalidEncoding"), grp)
     ELSE IF format = "COMPRESSED" /\ encoded[1] # 3 /\ encoded[1] # 2
       THEN Leave(R("InvalidEncoding"), grp)
     ELSE IF ~oct.ok
       THEN [Leave(R("ProviderFailure"), grp) EXCEPT !.acq = @ \cup {point}]
     ELSE IF ~EC_POINT_is_on_curve(curve, oct.point)
       THEN Leave(R("InvalidPoint"), grp \cup {point})
     ELSE [Leave(R("OK"), grp) EXCEPT !.point = oct.point,
                                      !.acq = @ \cup {point},
                                      !.ret = {point}]

(***************************************************************************)
(* SslGetEcPointFromEncoded (lines 121-171).                               *)
(***************************************************************************)
SslGetEcPointFromEncoded(bld, curve, format, encoded) ==
  LET group == EcGroupFromCurveType(curve)
      encoding_size == EncodingSizeInBytes(curve, format)
      oct == EC_POINT_oct2point(bld, curve, encoded)
      grp == {"SslGetEcPointFromEncoded.group"}
      point == "SslGetEcPointFromEncoded.point"
      \* the handles of this scope and of the finished call of EncodingSizeInBytes
      Leave(r, handles) ==
        [Scoped(r, handles) EXCEPT !.acq = @ \cup encoding_size.acq,
                                   !.rel = @ \cup encoding_size.rel]
  IN IF format # "UNCOMPRESSED" /\ format # "COMPRESSED"
       THEN R("UnsupportedFormat")
     ELSE IF group.status # "OK" THEN group
     ELSE IF encoding_size.status # "OK"
       THEN Leave(R(encoding_size.status), grp)
     ELSE IF Len(encoded) # encoding_size.size
       THEN Leave(R("LengthMismatch"), grp)
     ELSE IF format = "UNCOMPRESSED" /\ encoded[1] # 4
       THEN Leave(R("InvalidEncoding"), grp)
     ELSE IF format = "COMPRESSED" /\ encoded[1] # 3 /\ encoded[1] # 2
       THEN Leave(R("InvalidEncoding"), grp)
     ELSE IF ~oct.ok
       THEN Leave(R("ProviderFailure"), grp \cup {point})
     ELSE IF ~EC_POINT_is_on_curve(curve, oct.point)
       THEN Leave(R("InvalidPoint"), grp \cup {point})
     ELSE [Leave(R("OK"), grp) EXCEPT !.point = oct.point,
                                      !.acq = @ \cup {point},
                                      !.ret = {point}]

\* EcPointEncode writing y before x in the legacy format
EcPointEncode_SwappedCoordinates(bld, curve, format, point) ==
  LET group == EcGroupFromCurveType(curve)
      kCurveSizeInBytes == (EC_GROUP_get_degree(curve) + 7) \div 8
      grp == {"EcPointEncode.group"}
      bns == {"EcPointEncode.x", "EcPointEncode.y"}
      coords == EC_POINT_get_affine_coordinates(curve, point)
      resx == BignumToBinaryPadded(kCurveSizeInBytes, coords.x)
      resy == BignumToBinaryPadded(kCurveSizeInBytes, coords.y)
  IN IF group.status # "OK" THEN group
     ELSE IF ~EC_POINT_is_on_curve(curve, point)
       THEN Scoped(R("InvalidPoint"), grp)
     ELSE IF format = "UNCOMPRESSED"
       THEN Scoped(SslEcPointEncode(bld, curve, point, "POINT_CONVERSION_UNCOMPRESSED"), grp)
     ELSE IF format = "COMPRESSED"
       THEN Scoped(SslEcPointEncode(bld, curve, point, "POINT_CONVERSION_COMPRESSED"), grp)
     ELSE IF format = "DO_NOT_USE_CRUNCHY_UNCOMPRESSED"
       THEN IF ~coords.ok THEN Scoped(R("ProviderFailure"), grp \cup bns)
            ELSE IF ~resx.ok THEN Scoped(R("ProviderFailure"), grp \cup bns)
            ELSE IF ~resy.ok THEN Scoped(R("ProviderFailure"), grp \cup bns)
            ELSE Scoped([R("OK") EXCEPT !.bytes = resy.bytes \o resx.bytes], grp \cup bns)
     ELSE Scoped(R("UnsupportedFormat"), grp)

\* EcPointEncode rounding the coordinate size down
EcPointEncode_TruncatedSize(bld, curve, format, point) ==
  LET group == EcGroupFromCurveType(curve)
      kCurveSizeInBytes == EC_GROUP_get_degree(curve) \div 8
      grp == {"EcPointEncode.group"}
      bns == {"EcPointEncode.x", "EcPointEncode.y"}
      coords == EC_POINT_get_affine_coordinates(curve, point)
      resx == BignumToBinaryPadded(kCurveSizeInBytes, coords.x)
      resy == BignumToBinaryPadded(kCurveSizeInBytes, coords.y)
  IN IF group.status # "OK" THEN group
     ELSE IF ~EC_POINT_is_on_curve(curve, point)
       THEN Scoped(R("InvalidPoint"), grp)
     ELSE IF format = "UNCOMPRESSED"
       THEN Scoped(SslEcPointEncode(bld, curve, point, "POINT_CONVERSION_UNCOMPRESSED"), grp)
     ELSE IF format = "COMPRESSED"
       THEN Scoped(SslEcPointEncode(bld, curve, point, "POINT_CONVERSION_COMPRESSED"), grp)
     ELSE IF format = "DO_NOT_USE_CRUNCHY_UNCOMPRESSED"
       THEN IF ~coords.ok THEN Scoped(R("ProviderFailure"), grp \cup bns)
            ELSE IF ~resx.ok THEN Scoped(R("ProviderFailure"), grp \cup bns)
            ELSE IF ~resy.ok THEN Scoped(R("ProviderFailure"), grp \cup bns)
            ELSE Scoped([R("OK") EXCEPT !.bytes = resx.bytes \o resy.bytes], grp \cup bns)
     ELSE Scoped(R("UnsupportedFormat"), grp)

(***************************************************************************)
(* EcPointEncode (lines 235-294).  `point` is the caller's; the call owns  *)
(* the group and, for the legacy format, the two coordinate BIGNUMs.       *)
(***************************************************************************)
EcPointEncode(bld, curve, format, point) ==
  LET group == EcGroupFromCurveType(curve)
      kCurveSizeInBytes == (EC_GROUP_get_degree(curve) + 7) \div 8
      grp == {"EcPointEncode.group"}
      bns == {"EcPointEncode.x", "EcPointEncode.y"}
      coords == EC_POINT_get_affine_coordinates(curve, point)
      resx == BignumToBinaryPadded(kCurveSizeInBytes, coords.x)
      resy == BignumToBinaryPadded(kCurveSizeInBytes, coords.y)
  IN IF group.status # "OK" THEN group
     ELSE IF ~EC_POINT_is_on_curve(curve, point)
       THEN Scoped(R("InvalidPoint"), grp)
     ELSE IF format = "UNCOMPRESSED"
       THEN Scoped(SslEcPointEncode(bld, curve, point, "POINT_CONVERSION_UNCOMPRESSED"), grp)
     ELSE IF format = "COMPRESSED"
       THEN Scoped(SslEcPointEncode(bld, curve, point, "POINT_CONVERSION_COMPRESSED"), grp)
     ELSE IF format = "DO_NOT_USE_CRUNCHY_UNCOMPRESSED"
       THEN IF ~coords.ok THEN Scoped(R("ProviderFailure"), grp \cup bns)
            ELSE IF ~resx.ok THEN Scoped(R("ProviderFailure"), grp \cup bns)
            ELSE IF ~resy.ok THEN Scoped(R("ProviderFailure"), grp \cup bns)
            ELSE Scoped([R("OK") EXCEPT !.bytes = resx.bytes \o resy.bytes], grp \cup bns)
     ELSE Scoped(R("UnsupportedFormat"), grp)

\* EcPointDecode accepting a legacy input that is too long
EcPointDecode_LooseLength(bld, curve, format, encoded) ==
  LET group == EcGroupFromCurveType(curve)
      kCurveSizeInBytes == (EC_GROUP_get_degree(curve) + 7) \div 8
      grp == {"EcPointDecode.group"}
      inner == SslGetEcPointFromCoordinates(bld, curve,
                 Substr(encoded, 0, kCurveSizeInBytes),
                 Substr(encoded, kCurveSizeInBytes, Len(encoded) - kCurveSizeInBytes))
  IN IF format = "UNCOMPRESSED" \/ format = "COMPRESSED"
       THEN SslGetEcPointFromEncoded(bld, curve, format, encoded)
     ELSE IF format = "DO_NOT_USE_CRUNCHY_UNCOMPRESSED"
       THEN IF group.status # "OK" THEN group
            ELSE IF Len(encoded) < 2 * kCurveSizeInBytes
              THEN Scoped(R("LengthMismatch"), grp)
            ELSE Scoped(inner, grp)
     ELSE R("UnsupportedFormat")

(***************************************************************************)
(* EcPointDecode (lines 296-324).                                          *)
(***************************************************************************)
EcPointDecode(bld, curve, format, encoded) ==
  LET group == EcGroupFromCurveType(curve)
      kCurveSizeInBytes == (EC_GROUP_get_degree(curve) + 7) \div 8
      grp == {"EcPointDecode.group"}
      inner == SslGetEcPointFromCoordinates(bld, curve,
                 Substr(encoded, 0, kCurveSizeInBytes),
                 Substr(encoded, kCurveSizeInBytes, Len(encoded) - kCurveSizeInBytes))
  IN IF format = "UNCOMPRESSED" \/ format = "COMPRESSED"
       THEN SslGetEcPointFromEncoded(bld, curve, format, encoded)
     ELSE IF format = "DO_NOT_USE_CRUNCHY_UNCOMPRESSED"
       THEN IF group.status # "OK" THEN group
            ELSE IF Len(encoded) # 2 * kCurveSizeInBytes
              THEN Scoped(R("LengthMismatch"), grp)
            ELSE Scoped(inner, grp)
     ELSE R("UnsupportedFormat")

(***************************************************************************)
(* GetEcPoint (lines 371-379).                                             *)
(***************************************************************************)
GetEcPoint(bld, curve, pubx, puby) ==
  LET group == EcGroupFromCurveType(curve)
  IN IF group.status # "OK" THEN group
     ELSE Scoped(SslGetEcPointFromCoordinates(bld, curve, pubx, puby),
                 {"GetEcPoint.group"})

(***************************************************************************)
(* The X25519 key bridge.                                                  *)
(***************************************************************************)
\* X25519KeyPubKeySize(), X25519KeyPrivKeySize() (ec_util.h)
X25519KeyPubKeySize == 32

X25519KeyPrivKeySize == 32

\* EcKeyFromX25519Key copying the private key into pub_x
EcKeyFromX25519Key_PrivAsPub(x25519_key) ==
  [curve |-> "CURVE25519",
   pub_x |-> Substr(x25519_key.private_key, 0, X25519KeyPubKeySize),
   pub_y |-> <<>>,
   priv  |-> x25519_key.private_key]

\* EcKeyFromX25519Key (lines 204-214)
EcKeyFromX25519Key(x25519_key) ==
  [curve |-> "CURVE25519",
   pub_x |-> Substr(x25519_key.public_value, 0, X25519KeyPubKeySize),
   pub_y |-> <<>>,
   priv  |-> x25519_key.private_key]

\* what lies behind the end of a buffer that std::copy_n reads past
Garbage == {0, 170}

\* std::copy_n(src.begin(), count, dst): the first count bytes of src; past
\* the end of src the read is undefined and yields whatever is there
CopyN(src, count, junk) ==
  [i \in 1..count |-> IF i <= Len(src) THEN src[i] ELSE junk]

\* X25519KeyFromEcKey checking pub_y before the curve
X25519KeyFromEcKey_YFirst(ec_key) ==
  IF ec_key.pub_y # <<>> THEN {R("UnexpectedCoordinate")}
  ELSE IF ec_key.curve # "CURVE25519" THEN {R("WrongCurve")}
  ELSE LET past == \/ Len(ec_key.pub_x) < X25519KeyPubKeySize
                   \/ Len(ec_key.priv) < X25519KeyPrivKeySize
           Key(junk) ==
             [public_value |-> CopyN(ec_key.pub_x, X25519KeyPubKeySize, junk),
              private_key  |-> CopyN(ec_key.priv, X25519KeyPrivKeySize, junk)]
       IN IF ~past
            THEN {[R("OK") EXCEPT !.key = Key(0)]}
            ELSE {[R("OK") EXCEPT !.key = Key(junk), !.overread = TRUE] : junk \in Garbage}
                 \cup {[R("Fault") EXCEPT !.overread = TRUE]}

\* X25519KeyFromEcKey (lines 216-233): the set of outcomes.  There is one
\* outcome unless a copy reads past the end of pub_x or priv, which is
\* undefined: the call then returns a key holding foreign bytes, or faults.
X25519KeyFromEcKey(ec_key) ==
  IF ec_key.curve # "CURVE25519" THEN {R("WrongCurve")}
  ELSE IF ec_key.pub_y # <<>> THEN {R("UnexpectedCoordinate")}
  ELSE LET past == \/ Len(ec_key.pub_x) < X25519KeyPubKeySize
                   \/ Len(ec_key.priv) < X25519KeyPrivKeySize
           Key(junk) ==
             [public_value |-> CopyN(ec_key.pub_x, X25519KeyPubKeySize, junk),
              private_key  |-> CopyN(ec_key.priv, X25519KeyPrivKeySize, junk)]
       IN IF ~past
            THEN {[R("OK") EXCEPT !.key = Key(0)]}
            ELSE {[R("OK") EXCEPT !.key = Key(junk), !.overread = TRUE] : junk \in Garbage}
                 \cup {[R("Fault") EXCEPT !.overread = TRUE]}

(***************************************************************************)
(* Inputs.                                                                 *)
(***************************************************************************)
NoArg ==
  [curve |-> "none", format |-> "none", point |-> NoPoint, encoded |-> <<>>,
   pubx |-> <<>>, puby |-> <<>>, eckey |-> NoEcKey, x25519 |-> NoKey]

\* the EC_POINT objects a caller can hold for a group: the point at infinity
\* and every pair of field elements, on the curve or not
PointsOf(curve) ==
  {Infinity(curve)} \cup
  {Affine(curve, x, y) : x \in 0..(FieldPrime(curve) - 1), y \in 0..(FieldPrime(curve) - 1)}

InputPoints == UNION {PointsOf(c) : c \in SupportedCurves}

\* the prime that scales the coordinates tried for a curve type
InputPrime(curve) == IF curve \in SupportedCurves THEN FieldPrime(curve) ELSE 7

CoordValues(curve) == 0..(InputPrime(curve) - 1 + MaxExtra)

\* an n-byte big-endian coordinate: top byte hi, low byte v
Coord(n, hi, v) == <<hi>> \o Zeros(n - 2) \o <<v>>

Layout(format, tag, X, Y) ==
  CASE format = "UNCOMPRESSED" -> <<tag>> \o X \o Y
    [] format = "COMPRESSED" -> <<tag>> \o X
    [] OTHER -> X \o Y

\* a buffer, and the same one byte short, one byte long, and empty
Lengths(b) == {b, SubSeq(b, 1, Len(b) - 1), b \o <<0>>, <<>>}

OnCurvePairs(curve) ==
  {pr \in (0..(FieldPrime(curve) - 1)) \X (0..(FieldPrime(curve) - 1)) :
     SatisfiesEquation(curve, pr[1], pr[2])}

OffCurvePairs(curve) ==
  {pr \in (0..(FieldPrime(curve) - 1)) \X (0..(FieldPrime(curve) - 1)) :
     ~SatisfiesEquation(curve, pr[1], pr[2])}

SamplePairs(curve) ==
  {CHOOSE pr \in OnCurvePairs(curve) : TRUE, CHOOSE pr \in OffCurvePairs(curve) : TRUE}

\* every first byte with two sample bodies
TagSweep(curve, format) ==
  LET n == FieldLen(curve)
  IN UNION {Lengths(Layout(format, tag, Coord(n, 0, pr[1]), Coord(n, 0, pr[2]))) :
              tag \in 0..255, pr \in SamplePairs(curve)}

\* every body with the well-formed first bytes
BodySweep(curve, format) ==
  LET n == FieldLen(curve)
  IN UNION {Lengths(Layout(format, tag, Coord(n, hx, x), Coord(n, hy, y))) :
              tag \in {2, 3, 4}, hx \in {0, 1}, hy \in {0, 1},
              x \in CoordValues(curve), y \in CoordValues(curve)}

DecodeInputs(curve, format) ==
  IF curve \in SupportedCurves /\ format \in SupportedFormats
    THEN TagSweep(curve, format) \cup BodySweep(curve, format)
    ELSE {<<>>, <<4>> \o Zeros(64), <<2>> \o Zeros(32), Zeros(64)}

\* big-endian coordinate strings of any length for GetEcPoint
CoordStrings(curve) ==
  {<<>>} \cup {Zeros(k) \o <<v>> : k \in 0..MaxPad, v \in CoordValues(curve)}
         \cup {<<1, v>> : v \in 0..3}

KeyBytes(len, seed) == [i \in 1..len |-> (16 * seed + i) % 256]

KeyStrings == {KeyBytes(len, seed) : len \in {0, 1, 31, 32, 33}, seed \in 1..MaxSeed}

EcKeys ==
  [curve : EllipticCurveType, pub_x : KeyStrings,
   pub_y : {<<>>, <<1>>, KeyBytes(32, 1)}, priv : KeyStrings]

X25519Keys ==
  [private_key : {KeyBytes(32, seed) : seed \in 1..MaxSeed},
   public_value : {KeyBytes(32, seed) : seed \in 1..MaxSeed}]

(***************************************************************************)
(* The state machine: one action per function, the whole call.             *)
(***************************************************************************)
Init ==
  /\ build \in Builds
  /\ op = "none"
  /\ arg = NoArg
  /\ res = R("none")
  /\ held = {}
  /\ callerOwns = {}

\* no result is pending: a call can be made
Idle == op = "none"

\* the call returns r: what it acquired and neither released nor handed over
\* stays held by the module
Return(name, a, r) ==
  /\ op' = name
  /\ arg' = a
  /\ res' = r
  /\ held' = held \cup (r.acq \ (r.rel \cup r.ret))
  /\ callerOwns' = r.ret
  /\ UNCHANGED build

EncodingSizeInBytesCall ==
  /\ Idle
  /\ \E curve \in EllipticCurveType, format \in EcPointFormat :
    Return("EncodingSizeInBytes",
           [NoArg EXCEPT !.curve = curve, !.format = format],
           EncodingSizeInBytes(curve, format))

EcPointEncodeCall ==
  /\ Idle
  /\ \E curve \in EllipticCurveType, format \in EcPointFormat, point \in InputPoints :
    Return("EcPointEncode",
           [NoArg EXCEPT !.curve = curve, !.format = format, !.point = point],
           EcPointEncode(build, curve, format, point))

EcPointDecodeCall ==
  /\ Idle
  /\ \E curve \in EllipticCurveType, format \in EcPointFormat :
    \E encoded \in DecodeInputs(curve, format) :
      Return("EcPointDecode",
             [NoArg EXCEPT !.curve = curve, !.format = format, !.encoded = encoded],
             EcPointDecode(build, curve, format, encoded))

GetEcPointCall ==
  /\ Idle
  /\ \E curve \in EllipticCurveType :
    \E pubx \in CoordStrings(curve), puby \in CoordStrings(curve) :
      Return("GetEcPoint",
             [NoArg EXCEPT !.curve = curve, !.pubx = pubx, !.puby = puby],
             GetEcPoint(build, curve, pubx, puby))

\* EcPointEncode, then EcPointDecode of its output
PointRoundTrip(bld, curve, format, point) ==
  LET e == EcPointEncode(bld, curve, format, point)
      d == EcPointDecode(bld, curve, format, e.bytes)
  IN IF e.status # "OK"
       THEN [e EXCEPT !.enc = e.status]
       ELSE [d EXCEPT !.enc = e.status, !.encBytes = e.bytes,
                      !.acq = @ \cup e.acq, !.rel = @ \cup e.rel]

PointRoundTripCall ==
  /\ Idle
  /\ \E curve \in EllipticCurveType, format \in EcPointFormat, point \in InputPoints :
    Return("PointRoundTrip",
           [NoArg EXCEPT !.curve = curve, !.format = format, !.point = point],
           PointRoundTrip(build, curve, format, point))

EcKeyFromX25519KeyCall ==
  /\ Idle
  /\ \E x25519_key \in X25519Keys :
    Return("EcKeyFromX25519Key",
           [NoArg EXCEPT !.x25519 = x25519_key],
           [R("OK") EXCEPT !.eckey = EcKeyFromX25519Key(x25519_key)])

X25519KeyFromEcKeyCall ==
  /\ Idle
  /\ \E ec_key \in EcKeys :
    \E r \in X25519KeyFromEcKey(ec_key) :
      Return("X25519KeyFromEcKey", [NoArg EXCEPT !.eckey = ec_key], r)

\* X25519KeyFromEcKey, then EcKeyFromX25519Key of its result
X25519RoundTripCall ==
  /\ Idle
  /\ \E ec_key \in EcKeys :
    \E r \in X25519KeyFromEcKey(ec_key) :
      Return("X25519RoundTrip", [NoArg EXCEPT !.eckey = ec_key],
             IF r.status # "OK" THEN r
             ELSE [r EXCEPT !.eckey = EcKeyFromX25519Key(r.key)])

\* the caller is done with the result: the StatusOr it received goes out of
\* scope, and with it the SslUniquePtr<EC_POINT> it may hold
Drop ==
  /\ op # "none"
  /\ op' = "none"
  /\ arg' = NoArg
  /\ res' = R("none")
  /\ callerOwns' = {}
  /\ UNCHANGED <<build, held>>

Next ==
  \/ Drop
  \/ EncodingSizeInBytesCall
  \/ EcPointEncodeCall
  \/ EcPointDecodeCall
  \/ GetEcPointCall
  \/ PointRoundTripCall
  \/ EcKeyFromX25519KeyCall
  \/ X25519KeyFromEcKeyCall
  \/ X25519RoundTripCall

Spec == Init /\ [][Next]_vars

TypeOK ==
  /\ build \in Builds
  /\ res.status \in {"none", "OK", "Fault", "UnsupportedCurve", "UnsupportedFormat",
                     "LengthMismatch", "InvalidEncoding", "InvalidPoint",
                     "ProviderFailure", "WrongCurve", "UnexpectedCoordinate"}

(***************************************************************************)
(* Vocabulary of the properties.                                           *)
(***************************************************************************)
\* the point is a point of the curve: of its group, and the point at
\* infinity or a solution of the equation
OnCurve(curve, point) ==
  /\ point.group = curve
  /\ (point.inf \/ SatisfiesEquation(curve, point.x, point.y))

\* ceil(bits / 8)
CeilBytes(bits) == CHOOSE k \in 0..bits : 8 * k >= bits /\ 8 * (k - 1) < bits

\* the coordinate byte length the specification states for each curve
StatedN(curve) ==
  CASE curve = "NIST_P256" -> 32
    [] curve = "NIST_P384" -> 48
    [] curve = "NIST_P521" -> 66

\* the encoding size the specification states
StatedSize(curve, format) ==
  CASE format = "UNCOMPRESSED" -> 2 * StatedN(curve) + 1
    [] format = "COMPRESSED" -> StatedN(curve) + 1
    [] format = "DO_NOT_USE_CRUNCHY_UNCOMPRESSED" -> 2 * StatedN(curve)

\* the input of the last EcPointDecode has a tag byte in this format
Tagged == arg.format \in {"UNCOMPRESSED", "COMPRESSED"}

\* the x and y bytes of a well-sized input of the last EcPointDecode
EncodedX ==
  SubSeq(arg.encoded, (IF Tagged THEN 2 ELSE 1),
         (IF Tagged THEN 1 ELSE 0) + StatedN(arg.curve))

EncodedY ==
  SubSeq(arg.encoded, (IF Tagged THEN 2 ELSE 1) + StatedN(arg.curve),
         (IF Tagged THEN 1 ELSE 0) + 2 * StatedN(arg.curve))

DecodeCase ==
  /\ op = "EcPointDecode"
  /\ arg.curve \in SupportedCurves
  /\ arg.format \in SupportedFormats

HandleOps == {"EcPointEncode", "EcPointDecode", "GetEcPoint", "EncodingSizeInBytes", "PointRoundTrip"}

PointHandles == {"SslGetEcPointFromEncoded.point", "SslGetEcPointFromCoordinates.pub_key"}

(***************************************************************************)
(* C1.  Round trip.                                                        *)
(***************************************************************************)
RoundTripCase ==
  /\ op = "PointRoundTrip"
  /\ arg.curve \in SupportedCurves
  /\ arg.format \in SupportedFormats
  /\ OnCurve(arg.curve, arg.point)

RoundTripHolds ==
  /\ res.enc = "OK"
  /\ res.status = "OK"
  /\ res.point = arg.point

\* C1 as stated: for every supported curve, every format and EVERY point on
\* the curve, EcPointEncode succeeds and EcPointDecode of its output succeeds
\* and returns the original point.  The point at infinity is on the curve and
\* refutes it.
C1_RoundTripEveryPoint == RoundTripCase => RoundTripHolds

\* C1 (amended): for every supported curve, every format and every affine
\* point on the curve (every point on it but the point at infinity),
\* EcPointEncode succeeds and EcPointDecode of its output succeeds and
\* returns a point equal to the original.
C1_RoundTripAffine == (RoundTripCase /\ ~arg.point.inf) => RoundTripHolds

C1_Witness ==
  /\ RoundTripCase
  /\ ~arg.point.inf
  /\ arg.format = "COMPRESSED"
  /\ arg.point.y % 2 = 1
  /\ res.encBytes[1] = 3
  /\ RoundTripHolds

(***************************************************************************)
(* C2.  Fail closed.                                                       *)
(***************************************************************************)
\* the coordinates the last EcPointDecode or GetEcPoint was given, modulo
\* the field prime; a compressed input gives x only
GivenX ==
  BnMod(StripLeadingZeros(IF op = "GetEcPoint" THEN arg.pubx ELSE EncodedX),
        FieldPrime(arg.curve))

GivenY ==
  BnMod(StripLeadingZeros(IF op = "GetEcPoint" THEN arg.puby ELSE EncodedY),
        FieldPrime(arg.curve))

\* C2: whenever EcPointDecode (any format) or GetEcPoint returns success, the
\* returned point is an affine point on the claimed curve and has the
\* coordinates that were given, so coordinates off the curve are never
\* accepted; and an error never comes with a point.
C2_FailClosed ==
  op \in {"EcPointDecode", "GetEcPoint"} =>
    /\ res.status = "OK" =>
         /\ ~res.point.inf
         /\ OnCurve(arg.curve, res.point)
         /\ res.point.x = GivenX
         /\ (op = "GetEcPoint" \/ arg.format # "COMPRESSED") =>
              /\ res.point.y = GivenY
              /\ SatisfiesEquation(arg.curve, GivenX, GivenY)
         /\ res.ret # {}
    /\ res.status # "OK" => (res.point = NoPoint /\ res.ret = {})

\* a well-formed uncompressed input (right length, tag 0x04, field elements)
\* whose coordinates are off the curve was rejected
C2_Witness ==
  /\ DecodeCase
  /\ arg.format = "UNCOMPRESSED"
  /\ Len(arg.encoded) = StatedSize(arg.curve, arg.format)
  /\ arg.encoded[1] = 4
  /\ BnLess(StripLeadingZeros(EncodedX), FieldPrime(arg.curve))
  /\ BnLess(StripLeadingZeros(EncodedY), FieldPrime(arg.curve))
  /\ ~SatisfiesEquation(arg.curve, GivenX, GivenY)
  /\ res.status # "OK"
  /\ res.point = NoPoint

(***************************************************************************)
(* C3.  Length check.                                                      *)
(***************************************************************************)
\* C3: for every supported curve and format, EcPointDecode of an input whose
\* length differs from EncodingSizeInBytes(curve, format) fails with
\* LengthMismatch, whatever the bytes are, and no point has been constructed.
C3_LengthMismatch ==
  (DecodeCase /\ Len(arg.encoded) # EncodingSizeInBytes(arg.curve, arg.format).size) =>
    /\ res.status = "LengthMismatch"
    /\ res.point = NoPoint
    /\ res.acq \cap PointHandles = {}

\* an input both of the wrong length and with a wrong tag byte
C3_Witness ==
  /\ DecodeCase
  /\ arg.format = "UNCOMPRESSED"
  /\ Len(arg.encoded) = StatedSize(arg.curve, arg.format) - 1
  /\ arg.encoded[1] = 5
  /\ res.status = "LengthMismatch"

(***************************************************************************)
(* C4.  Tag byte check.                                                    *)
(***************************************************************************)
\* C4: for a supported curve and an input of the expected length,
\* EcPointDecode fails with InvalidEncoding when the format is UNCOMPRESSED
\* and the first byte is not 0x04, and when the format is COMPRESSED and the
\* first byte is neither 0x02 nor 0x03, whatever the remaining bytes are.
C4_InvalidEncoding ==
  (/\ DecodeCase
   /\ Tagged
   /\ Len(arg.encoded) = StatedSize(arg.curve, arg.format)
   /\ \/ arg.format = "UNCOMPRESSED" /\ arg.encoded[1] # 4
      \/ arg.format = "COMPRESSED" /\ arg.encoded[1] \notin {2, 3})
  => (res.status = "InvalidEncoding" /\ res.point = NoPoint)

\* a hybrid-form input holding on-curve coordinates, which the OpenSSL
\* provider would have decoded, was rejected for its tag
C4_Witness ==
  /\ DecodeCase
  /\ arg.format = "UNCOMPRESSED"
  /\ Len(arg.encoded) = StatedSize(arg.curve, arg.format)
  /\ arg.encoded[1] \in {6, 7}
  /\ build = "openssl"
  /\ EC_POINT_oct2point(build, arg.curve, arg.encoded).ok
  /\ res.status = "InvalidEncoding"

(***************************************************************************)
(* C5.  Short X25519 fields.                                               *)
(***************************************************************************)
ShortFieldCase ==
  /\ op = "X25519KeyFromEcKey"
  /\ arg.eckey.curve = "CURVE25519"
  /\ arg.eckey.pub_y = <<>>
  /\ \/ Len(arg.eckey.pub_x) < 32
     \/ Len(arg.eckey.priv) < 32

\* C5: X25519KeyFromEcKey fails with LengthMismatch, and returns no key,
\* whenever the input is a CURVE25519 key with empty pub_y whose pub_x or
\* priv is shorter than 32 bytes; it never reads past the end of a field.
C5_ShortFieldsRejected ==
  ShortFieldCase =>
    /\ res.status = "LengthMismatch"
    /\ res.key = NoKey
    /\ ~res.overread

(***************************************************************************)
(* C6.  X25519 round trip.                                                 *)
(***************************************************************************)
WellFormedX25519 ==
  /\ arg.eckey.curve = "CURVE25519"
  /\ arg.eckey.pub_y = <<>>
  /\ Len(arg.eckey.pub_x) = 32
  /\ Len(arg.eckey.priv) = 32

\* C6: for every well-formed CURVE25519 EcKey k (pub_y empty, pub_x and priv
\* of exactly 32 bytes), X25519KeyFromEcKey(k) succeeds and
\* EcKeyFromX25519Key of its result equals k field by field.
C6_X25519RoundTrip ==
  (op = "X25519RoundTrip" /\ WellFormedX25519) =>
    /\ res.status = "OK"
    /\ ~res.overread
    /\ res.eckey.curve = "CURVE25519"
    /\ res.eckey.pub_x = arg.eckey.pub_x
    /\ res.eckey.pub_y = <<>>
    /\ res.eckey.priv = arg.eckey.priv

\* a round trip of a key whose public and private bytes differ
C6_Witness ==
  /\ op = "X25519RoundTrip"
  /\ WellFormedX25519
  /\ arg.eckey.pub_x # arg.eckey.priv
  /\ res.status = "OK"
  /\ res.eckey = arg.eckey

(***************************************************************************)
(* C7.  X25519KeyFromEcKey argument checks.                                *)
(***************************************************************************)
\* C7: X25519KeyFromEcKey fails with WrongCurve for every key whose curve is
\* not CURVE25519, whatever pub_y, pub_x and priv are, and with
\* UnexpectedCoordinate for every CURVE25519 key whose pub_y is non-empty,
\* whatever the lengths of pub_x and priv; no key is returned in either case.
C7_ArgumentChecks ==
  op = "X25519KeyFromEcKey" =>
    /\ arg.eckey.curve # "CURVE25519" =>
         (res.status = "WrongCurve" /\ res.key = NoKey /\ ~res.overread)
    /\ (arg.eckey.curve = "CURVE25519" /\ arg.eckey.pub_y # <<>>) =>
         (res.status = "UnexpectedCoordinate" /\ res.key = NoKey /\ ~res.overread)

\* a key of another curve that also carries a pub_y and a short pub_x
C7_Witness ==
  /\ op = "X25519KeyFromEcKey"
  /\ arg.eckey.curve = "NIST_P256"
  /\ arg.eckey.pub_y # <<>>
  /\ Len(arg.eckey.pub_x) < 32
  /\ res.status = "WrongCurve"

(***************************************************************************)
(* C8.  Encoding sizes.                                                    *)
(***************************************************************************)
\* C8: with n = ceil(degree / 8), which is 32, 48 and 66 for the three
\* curves, EncodingSizeInBytes returns 2n+1 for UNCOMPRESSED, n+1 for
\* COMPRESSED and 2n for the legacy format, and fails with UnsupportedFormat
\* for every other format, for every supported curve.
C8_EncodingSize ==
  (op = "EncodingSizeInBytes" /\ arg.curve \in SupportedCurves) =>
    /\ StatedN(arg.curve) = CeilBytes(EC_GROUP_get_degree(arg.curve))
    /\ arg.format \in SupportedFormats =>
         (res.status = "OK" /\ res.size = StatedSize(arg.curve, arg.format))
    /\ arg.format \notin SupportedFormats =>
         (res.status = "UnsupportedFormat" /\ res.size = 0)

\* the degree that is not a multiple of 8
C8_Witness ==
  /\ op = "EncodingSizeInBytes"
  /\ arg.curve = "NIST_P521"
  /\ arg.format = "COMPRESSED"
  /\ res.status = "OK"
  /\ res.size = 67

(***************************************************************************)
(* C9.  Provider handles.                                                  *)
(***************************************************************************)
\* C9: every handle a call of EcPointEncode, EcPointDecode, GetEcPoint or
\* EncodingSizeInBytes acquired is released when the call returns, on every
\* exit path, except the point handed to the caller on success, and an error
\* hands over nothing; after any sequence of calls the module holds no handle.
C9_HandlesReleased ==
  /\ held = {}
  /\ op \in HandleOps =>
       /\ res.acq \ res.ret = res.rel
       /\ res.ret \subseteq PointHandles
       /\ callerOwns = res.ret
       /\ res.status # "OK" => res.ret = {}
       /\ (res.status = "OK" /\ op \in {"EcPointDecode", "GetEcPoint"}) =>
            Cardinality(res.ret) = 1

\* an error return taken after the group and the point were both acquired
C9_Witness ==
  /\ op = "EcPointDecode"
  /\ res.status = "ProviderFailure"
  /\ {"SslGetEcPointFromEncoded.group", "SslGetEcPointFromEncoded.point",
      "EncodingSizeInBytes.group"} \subseteq res.rel
  /\ held = {}

(***************************************************************************)
(* C10.  Cross-format consistency of EcPointEncode.                        *)
(***************************************************************************)
EncodeCase ==
  /\ op = "EcPointEncode"
  /\ arg.curve \in SupportedCurves
  /\ arg.format \in SupportedFormats
  /\ OnCurve(arg.curve, arg.point)
  /\ res.status = "OK"

\* the encoding of the same point in another format
Other(format) == EcPointEncode(build, arg.curve, format, arg.point)

CrossFormat ==
  /\ Len(res.bytes) = EncodingSizeInBytes(arg.curve, arg.format).size
  /\ arg.format = "DO_NOT_USE_CRUNCHY_UNCOMPRESSED" =>
       /\ Other("UNCOMPRESSED").status = "OK"
       /\ res.bytes = Tail(Other("UNCOMPRESSED").bytes)
  /\ arg.format = "UNCOMPRESSED" =>
       /\ Other("DO_NOT_USE_CRUNCHY_UNCOMPRESSED").status = "OK"
       /\ Tail(res.bytes) = Other("DO_NOT_USE_CRUNCHY_UNCOMPRESSED").bytes
  /\ arg.format = "COMPRESSED" =>
       /\ Other("DO_NOT_USE_CRUNCHY_UNCOMPRESSED").status = "OK"
       /\ Tail(res.bytes) =
            SubSeq(Other("DO_NOT_USE_CRUNCHY_UNCOMPRESSED").bytes, 1, StatedN(arg.curve))

\* C10 as stated: for every supported curve and EVERY on-curve point, a
\* successful encoding has the length EncodingSizeInBytes gives, the legacy
\* encoding is the uncompressed one without its first byte, and the
\* compressed one after its tag is the first n bytes of the legacy one.
\* The OpenSSL provider encodes the point at infinity as the single byte 0.
C10_CrossFormatEveryPoint == EncodeCase => CrossFormat

\* C10 (amended): the same, for every affine on-curve point (every on-curve
\* point but the point at infinity).
C10_CrossFormatAffine == (EncodeCase /\ ~arg.point.inf) => CrossFormat

\* a compressed encoding of a point of the 521-bit curve with x # 0
C10_Witness ==
  /\ EncodeCase
  /\ ~arg.point.inf
  /\ arg.curve = "NIST_P521"
  /\ arg.format = "COMPRESSED"
  /\ arg.point.x # 0
  /\ Len(res.bytes) = 67
  /\ CrossFormat
====
